---- MODULE Spec2Model ----
(***************************************************************************)
(* A model of the public handle layer of rwkv.cpp (src/rwkv.cpp): Context  *)
(* creation, cloning and release over a reference-counted Model, the       *)
(* error slots, the print flags and the length accessors.  The loader, the *)
(* graph builder, the evaluator and the error macros are included files    *)
(* that are not part of src/rwkv.cpp; they are modelled after spec.md.     *)
(***************************************************************************)
EXTENDS Integers, Sequences, FiniteSets, TLC

(* ------------------------------ bounds ---------------------------------- *)
\* Number of rwkv_context objects the heap can hold at once.
MaxCtx == 3
\* Number of rwkv_model objects the heap can hold at once.
MaxModel == 2
\* Largest value the reference count is driven to.
MaxRef == 3
\* Largest embedding width, layer count and head width of a header.
MaxEmbed == 3
MaxLayer == 3
MaxHead == 2
\* Largest vocabulary size of a header.
MaxVocab == 2
\* Longest token sequence a caller evaluates.
MaxSeq == 3
\* Number of values a state buffer or a logits buffer takes in the model.
StateMod == 5
\* Width in bits of size_t in the model (the arithmetic of the length
\* accessors is done modulo 2^SizeTBits).
SizeTBits == 8
\* Width in bits of uint32_t in the model, scaled with size_t: narrower than
\* size_t, and wide enough for every header field.
Uint32Bits == 4

CtxIds == 1..MaxCtx
ModelIds == 1..MaxModel
NULL == 0
SizeTMod == 2 ^ SizeTBits
Uint32Mod == 2 ^ Uint32Bits
\* Thread-count settings a caller passes.
NThreads == {1, 2}

(* --------------------------- error flags -------------------------------- *)
\* enum rwkv_error_flags is a bit set; a value is modelled as the set of its
\* flags and `|=` as union.
RWKV_ERROR_NONE == {}
RWKV_ERROR_CTX_ALLOC == {"CTX", "ALLOC"}
FormatError == {"FILE"}
GraphError == {"GRAPH"}
ArgError == {"ARGS"}
ErrorKinds == {RWKV_ERROR_NONE, RWKV_ERROR_CTX_ALLOC, FormatError, GraphError, ArgError}

(* ------------------------------ state ----------------------------------- *)
VARIABLES
    ctx,                 \* the rwkv_context objects on the heap
    models,              \* the rwkv_model objects on the heap
    global_last_error,   \* process-wide error slot
    global_print_errors, \* process-wide print flag
    ub,                  \* "none", or how the process ended in undefined behaviour
    call,                \* the last API call made and what it returned
    thr,                 \* the position of each thread inside a clone or free call
    leaked,              \* per Model, the increments left behind by failed clones
    sess                 \* the caller's evaluation session (tokens and buffers)

vars == <<ctx, models, global_last_error, global_print_errors, ub, call, thr, leaked, sess>>

\* A heap slot holding no rwkv_context.
NoCtx == [alive |-> FALSE, model |-> NULL, n_threads |-> 0,
          serial_graph |-> FALSE, sequential_graph |-> FALSE,
          last_used_sequence_length |-> 0,
          last_error |-> RWKV_ERROR_NONE, print_errors |-> FALSE]

\* A heap slot holding no rwkv_model.
NoModel == [alive |-> FALSE, ggml_ctx |-> FALSE, reference_count |-> 0,
            n_vocab |-> 0, n_embed |-> 0, n_layer |-> 0,
            arch_version_major |-> 0, head_size |-> 0, weights |-> 0]

\* The record of an API call: the operation, the Context handle passed (NULL
\* when none), the handle, error code, flag and number returned, for a
\* failing call which step failed (for a clone, num is the thread count the
\* caller gave), the buffers an evaluation wrote (out), and
\* the arenas the call passed to ggml_free, in the order of the calls (freed).
Call(op, c, ptr, err, ok, num, cause) ==
    [op |-> op, c |-> c, ptr |-> ptr, err |-> err, ok |-> ok, num |-> num,
     out |-> <<0, 0>>, cause |-> cause, freed |-> <<>>]

LiveCtx == {c \in CtxIds : ctx[c].alive}
FreeCtxSlots == {c \in CtxIds : ~ctx[c].alive}
FreeModelSlots == {m \in ModelIds : ~models[m].alive}
Least(S) == CHOOSE x \in S : \A y \in S : x <= y

(* ------------------------------ files ----------------------------------- *)
\* What a model file holds: whether it parses, its header, the architecture
\* version and head width the loader derives, and its weights (abstracted to
\* one number).
File(valid, v, e, l, a, h, w) ==
    [valid |-> valid, n_vocab |-> v, n_embed |-> e, n_layer |-> l,
     arch_version_major |-> a, head_size |-> h, weights |-> w]

BadFile == File(FALSE, 0, 0, 0, 0, 0, 0)
GoodFile == File(TRUE, 2, 2, 1, 4, 0, 1)
OtherFile == File(TRUE, 1, 2, 2, 5, 2, 2)

(* ------------------------ included code (spec.md) ----------------------- *)
\* rwkv_load_model_from_file: fills the Model from a file that parses; a
\* truncated or bad-magic file fails with FormatError and keeps no arena.
rwkv_load_model_from_file(f) ==
    IF f.valid
    THEN [ok |-> TRUE, err |-> RWKV_ERROR_NONE,
          model |-> [alive |-> TRUE, ggml_ctx |-> TRUE, reference_count |-> 1,
                     n_vocab |-> f.n_vocab, n_embed |-> f.n_embed, n_layer |-> f.n_layer,
                     arch_version_major |-> f.arch_version_major,
                     head_size |-> f.head_size, weights |-> f.weights]]
    ELSE [ok |-> FALSE, err |-> FormatError,
          model |-> [NoModel EXCEPT !.alive = TRUE, !.reference_count = 1]]

\* rwkv_measure_and_build_serial_context: builds the single-step graph in its
\* own arena; a failure keeps no arena and reports GraphError.
rwkv_measure_and_build_serial_context(graph_ok) ==
    IF graph_ok THEN [ok |-> TRUE, err |-> RWKV_ERROR_NONE, ggml_ctx |-> TRUE]
    ELSE [ok |-> FALSE, err |-> GraphError, ggml_ctx |-> FALSE]

\* struct rwkv_context(): the fields of a newly constructed Context.  The
\* print flag's default is set in the struct's declaration; both values are
\* allowed for it here.
NewContext(p) == [NoCtx EXCEPT !.alive = TRUE, !.print_errors = p]

(* ------------------------- rwkv_init_from_file -------------------------- *)
\* Outcomes of writing through the null Model pointer (rwkv.cpp:60).
UBOutcomes == {"sigsegv", "wild_write"}

\* rwkv.cpp:60: the count of a new Model after `reference_count++`.
InitReferenceCount(rc) == rc + 1

rwkv_init_from_file(f, n_threads, p, ctx_ok, model_ok, graph_ok) ==
    /\ ub = "none"
    /\ FreeCtxSlots # {} /\ FreeModelSlots # {}
    /\ LET c == Least(FreeCtxSlots)
           m == Least(FreeModelSlots)
           load == rwkv_load_model_from_file(f)
           built == rwkv_measure_and_build_serial_context(graph_ok)
           mdl == [load.model EXCEPT !.reference_count = InitReferenceCount(0)]
       IN  IF ~ctx_ok
           THEN \* line 57: no Context object
                /\ global_last_error' = RWKV_ERROR_NONE \cup RWKV_ERROR_CTX_ALLOC
                /\ call' = Call("init", NULL, NULL, RWKV_ERROR_CTX_ALLOC, FALSE, 0, "ctx_alloc")
                /\ UNCHANGED <<ctx, models, ub>>
           ELSE IF ~model_ok
           THEN \* lines 59-60: the null Model pointer is dereferenced
                /\ global_last_error' = RWKV_ERROR_NONE
                /\ \E o \in UBOutcomes : ub' = o
                /\ call' = Call("init", NULL, NULL, RWKV_ERROR_NONE, FALSE, 0, "model_alloc")
                /\ UNCHANGED <<ctx, models>>
           ELSE IF ~load.ok
           THEN \* line 61: the unique_ptr deletes the Context, the Model stays
                /\ global_last_error' = RWKV_ERROR_NONE \cup load.err
                /\ models' = [models EXCEPT ![m] = mdl]
                /\ call' = Call("init", NULL, NULL, load.err, FALSE, 0, "load")
                /\ UNCHANGED <<ctx, ub>>
           ELSE IF ~built.ok
           THEN \* line 65: the unique_ptr deletes the Context, the Model stays
                /\ global_last_error' = RWKV_ERROR_NONE \cup built.err
                /\ models' = [models EXCEPT ![m] = mdl]
                /\ call' = Call("init", NULL, NULL, built.err, FALSE, 0, "graph")
                /\ UNCHANGED <<ctx, ub>>
           ELSE /\ global_last_error' = RWKV_ERROR_NONE
                /\ models' = [models EXCEPT ![m] = mdl]
                /\ ctx' = [ctx EXCEPT ![c] = [NewContext(p) EXCEPT
                               !.model = m, !.n_threads = n_threads,
                               !.serial_graph = built.ggml_ctx]]
                /\ call' = Call("init", NULL, c, RWKV_ERROR_NONE, TRUE, 0, "none")
                /\ UNCHANGED ub
    /\ UNCHANGED <<global_print_errors, thr, leaked>>

(* ------------------------- rwkv_clone_context --------------------------- *)
\* A clone bound to the first Model on the heap instead of the source's.
CloneModelFirst(c) == Least({m \in ModelIds : models[m].alive})

\* rwkv.cpp:75: the Model the clone refers to.
CloneModel(c) == ctx[c].model

\* A clone that forgets to count itself.
CloneReferenceCountMissing(rc) == rc

\* rwkv.cpp:76: the shared count after `reference_count++`.
CloneReferenceCount(rc) == rc + 1

\* A clone that takes the process-wide print flag.
ClonePrintErrorsGlobal(c) == global_print_errors

\* rwkv.cpp:84: the clone's print flag.
ClonePrintErrors(c) == ctx[c].print_errors

\* A clone that takes over the last-built length of its source.
CloneLastUsedSequenceLengthCopied(c) == ctx[c].last_used_sequence_length

\* rwkv.cpp:82: the clone's last-built multi-step length.
CloneLastUsedSequenceLength(c) == 0

rwkv_clone_context(c, n_threads, ctx_ok, graph_ok) ==
    /\ ub = "none"
    /\ c \in LiveCtx
    /\ FreeCtxSlots # {}
    /\ models[ctx[c].model].reference_count < MaxRef
    /\ LET clone == Least(FreeCtxSlots)
           m == CloneModel(c)
           built == rwkv_measure_and_build_serial_context(graph_ok)
       IN  IF ~ctx_ok
           THEN \* line 73
                /\ global_last_error' = global_last_error \cup RWKV_ERROR_CTX_ALLOC
                /\ call' = Call("clone", c, NULL, RWKV_ERROR_CTX_ALLOC, FALSE, n_threads, "ctx_alloc")
                /\ UNCHANGED <<ctx, models, leaked>>
           ELSE IF ~built.ok
           THEN \* line 80: the clone is deleted, the count stays incremented
                /\ global_last_error' = global_last_error \cup built.err
                /\ models' = [models EXCEPT ![m].reference_count = CloneReferenceCount(@)]
                /\ leaked' = [leaked EXCEPT ![m] = @ + 1]
                /\ call' = Call("clone", c, NULL, built.err, FALSE, n_threads, "graph")
                /\ UNCHANGED ctx
           ELSE /\ models' = [models EXCEPT ![m].reference_count = CloneReferenceCount(@)]
                /\ ctx' = [ctx EXCEPT ![clone] = [NewContext(FALSE) EXCEPT
                               !.model = m, !.n_threads = n_threads,
                               !.serial_graph = built.ggml_ctx,
                               !.last_used_sequence_length = CloneLastUsedSequenceLength(c),
                               !.print_errors = ClonePrintErrors(c)]]
                /\ call' = Call("clone", c, clone, RWKV_ERROR_NONE, TRUE, n_threads, "none")
                /\ UNCHANGED <<global_last_error, leaked>>
    /\ UNCHANGED <<global_print_errors, ub, thr>>

(* ------------------------------ rwkv_free ------------------------------- *)
\* rwkv.cpp:142: the count after `--reference_count`.
FreeReferenceCount(rc) == rc - 1

\* rwkv.cpp:142: whether the decremented count makes this call tear the
\* Model down.
FreeTearsDown(rc) == rc = 0

\* A free that releases the multi-step arena whatever the last-built length.
FreeSequentialGraphAlways(c) == TRUE

\* rwkv.cpp:150: whether rwkv_free releases the multi-step graph's arena.
FreeSequentialGraph(c) == ctx[c].last_used_sequence_length > 0

\* rwkv.cpp:143, 148, 151: the arenas rwkv_free passes to ggml_free, in order.
FreedArenas(c, teardown) ==
    (IF teardown THEN << <<"weights", ctx[c].model>> >> ELSE <<>>)
        \o << <<"serial_graph", c>> >>
        \o (IF FreeSequentialGraph(c) THEN << <<"sequential_graph", c>> >> ELSE <<>>)

rwkv_free(c) ==
    /\ ub = "none"
    /\ c \in LiveCtx \cup {NULL}
    /\ IF c = NULL
       THEN /\ call' = Call("free", c, NULL, RWKV_ERROR_NONE, TRUE, 0, "none")
            /\ UNCHANGED <<ctx, models, leaked>>
       ELSE LET m == ctx[c].model
                rc == FreeReferenceCount(models[m].reference_count)
            IN  /\ models' = IF FreeTearsDown(rc)
                             THEN [models EXCEPT ![m] = NoModel]
                             ELSE [models EXCEPT ![m].reference_count = rc]
                /\ leaked' = IF FreeTearsDown(rc) THEN [leaked EXCEPT ![m] = 0] ELSE leaked
                /\ ctx' = [ctx EXCEPT ![c] = NoCtx]
                /\ call' = [Call("free", c, NULL, RWKV_ERROR_NONE, TRUE, 0,
                                 IF FreeTearsDown(rc) THEN "teardown" ELSE "none") EXCEPT
                               !.freed = FreedArenas(c, FreeTearsDown(rc))]
    /\ UNCHANGED <<global_last_error, global_print_errors, ub, thr>>

(* ---------------------------- print flags ------------------------------- *)
\* A flag selection that ignores the handle.
PrintErrorsAlwaysGlobal(c) == FALSE

\* rwkv.cpp:159, 165: the flag a call with handle c selects.
PrintErrorsOfContext(c) == c # NULL

rwkv_set_print_errors(c, print_errors) ==
    /\ ub = "none"
    /\ c \in LiveCtx \cup {NULL}
    /\ IF PrintErrorsOfContext(c)
       THEN /\ ctx' = [ctx EXCEPT ![c].print_errors = print_errors]
            /\ UNCHANGED global_print_errors
       ELSE /\ global_print_errors' = print_errors
            /\ UNCHANGED ctx
    /\ call' = Call("set_print_errors", c, NULL, RWKV_ERROR_NONE, print_errors, 0, "none")
    /\ UNCHANGED <<models, global_last_error, ub, thr, leaked>>

rwkv_get_print_errors(c) ==
    /\ ub = "none"
    /\ c \in LiveCtx \cup {NULL}
    /\ call' = Call("get_print_errors", c, NULL, RWKV_ERROR_NONE,
                    IF PrintErrorsOfContext(c) THEN ctx[c].print_errors
                    ELSE global_print_errors, 0, "none")
    /\ UNCHANGED <<ctx, models, global_last_error, global_print_errors, ub, thr, leaked>>

(* ------------------------- rwkv_get_last_error -------------------------- *)
\* A slot selection that ignores the handle.
LastErrorAlwaysGlobal(c) == FALSE

\* rwkv.cpp:170: the slot a call with handle c selects.
LastErrorOfContext(c) == c # NULL

\* rwkv.cpp:172: the value the slot is left with.
LastErrorAfterRead(value) == RWKV_ERROR_NONE

rwkv_get_last_error(c) ==
    /\ ub = "none"
    /\ c \in LiveCtx \cup {NULL}
    /\ LET value == IF LastErrorOfContext(c) THEN ctx[c].last_error ELSE global_last_error
       IN  /\ IF LastErrorOfContext(c)
              THEN /\ ctx' = [ctx EXCEPT ![c].last_error = LastErrorAfterRead(value)]
                   /\ UNCHANGED global_last_error
              ELSE /\ global_last_error' = LastErrorAfterRead(value)
                   /\ UNCHANGED ctx
           /\ call' = Call("get_last_error", c, NULL, value, TRUE, 0, "none")
    /\ UNCHANGED <<models, global_print_errors, ub, thr, leaked>>

(* --------------------------- length accessors --------------------------- *)
\* rwkv.cpp:106-108
rwkv_get_n_vocab(c) == models[ctx[c].model].n_vocab % SizeTMod

\* A version test that leaves out version 5.
rwkv_get_state_len_after_5(c) ==
    LET model == models[ctx[c].model]
    IN  IF model.arch_version_major > 5
        THEN (model.n_embed * (2 + model.head_size) * model.n_layer) % SizeTMod
        ELSE (model.n_embed * 5 * model.n_layer) % SizeTMod

\* rwkv.cpp:121-129
rwkv_get_state_len(c) ==
    LET model == models[ctx[c].model]
    IN  IF model.arch_version_major >= 5
        THEN (model.n_embed * (2 + model.head_size) * model.n_layer) % SizeTMod
        ELSE (model.n_embed * 5 * model.n_layer) % SizeTMod

\* A logits length taken from the wrong header field.
rwkv_get_logits_len_embed(c) == models[ctx[c].model].n_embed % SizeTMod

\* rwkv.cpp:132-134
rwkv_get_logits_len(c) == models[ctx[c].model].n_vocab % SizeTMod

\* A compatibility accessor that returns the logits length for the state
\* length.
rwkv_get_state_buffer_element_count_logits(c) == rwkv_get_logits_len(c) % Uint32Mod

\* rwkv.cpp:95-97: the size_t result is converted to the uint32_t returned.
rwkv_get_state_buffer_element_count(c) == rwkv_get_state_len(c) % Uint32Mod

\* rwkv.cpp:101-103: the size_t result is converted to the uint32_t returned.
rwkv_get_logits_buffer_element_count(c) == rwkv_get_logits_len(c) % Uint32Mod

\* A call of one of the two compatibility accessors on a live Context.
CompatAccessor(op, c) ==
    /\ ub = "none"
    /\ c \in LiveCtx
    /\ op \in {"get_state_buffer_element_count", "get_logits_buffer_element_count"}
    /\ call' = Call(op, c, NULL, RWKV_ERROR_NONE, TRUE,
                    IF op = "get_state_buffer_element_count"
                    THEN rwkv_get_state_buffer_element_count(c)
                    ELSE rwkv_get_logits_buffer_element_count(c),
                    "none")
    /\ UNCHANGED <<ctx, models, global_last_error, global_print_errors, ub, thr, leaked>>

\* A call of one of the three accessors on a live Context.
Accessor(op, c) ==
    /\ ub = "none"
    /\ c \in LiveCtx
    /\ op \in {"get_n_vocab", "get_state_len", "get_logits_len"}
    /\ call' = Call(op, c, NULL, RWKV_ERROR_NONE, TRUE,
                    CASE op = "get_n_vocab" -> rwkv_get_n_vocab(c)
                      [] op = "get_state_len" -> rwkv_get_state_len(c)
                      [] op = "get_logits_len" -> rwkv_get_logits_len(c),
                    "none")
    /\ UNCHANGED <<ctx, models, global_last_error, global_print_errors, ub, thr, leaked>>

(* --------------------------- evaluator (spec.md) ------------------------ *)
\* One single-step block of the recurrence: the next state and the logits for
\* a token, from the weights and the previous state.  The tensor arithmetic
\* is abstracted to arithmetic modulo StateMod that is sensitive to the order
\* of the tokens; the result does not depend on the thread count.
StepState(w, s, t) == (2 * s + t + w) % StateMod
StepLogits(w, s, t) == (s + 2 * t + w + 1) % StateMod

\* A chain whose blocks all start from the initial state instead of the state
\* the previous block produced.
RECURSIVE SequenceChainUnthreaded(_, _, _)
SequenceChainUnthreaded(w, s, tokens) ==
    IF Len(tokens) = 1
    THEN <<StepState(w, s, tokens[1]), StepLogits(w, s, tokens[1])>>
    ELSE SequenceChainUnthreaded(w, s, Tail(tokens))

\* The multi-step graph: an unrolled chain of single-step blocks that share
\* one threaded-through state; it yields the final state and the logits of
\* the last token.
RECURSIVE SequenceChain(_, _, _)
SequenceChain(w, s, tokens) ==
    IF Len(tokens) = 1
    THEN <<StepState(w, s, tokens[1]), StepLogits(w, s, tokens[1])>>
    ELSE SequenceChain(w, StepState(w, s, tokens[1]), Tail(tokens))

\* A rule that rebuilds only for a request longer than the last build.
NeedsRebuildWhenLonger(c, n) == ctx[c].last_used_sequence_length < n

\* The multi-step graph is rebuilt exactly when the requested length differs
\* from the last-built length.
NeedsRebuild(c, n) == ctx[c].last_used_sequence_length # n

\* evaluate(ctx, token, ...): single-step evaluation.  Invalid arguments are
\* reported as ArgError in the Context's slot and nothing is executed.
rwkv_eval(c, token, state_in, args_ok) ==
    /\ ub = "none"
    /\ c \in LiveCtx
    /\ LET w == models[ctx[c].model].weights
       IN  IF ~args_ok
           THEN /\ ctx' = [ctx EXCEPT ![c].last_error = @ \cup ArgError]
                /\ call' = Call("eval", c, NULL, ArgError, FALSE, 0, "args")
           ELSE /\ call' = [Call("eval", c, NULL, RWKV_ERROR_NONE, TRUE, 1, "none") EXCEPT
                               !.out = <<StepState(w, state_in, token),
                                         StepLogits(w, state_in, token)>>]
                /\ UNCHANGED ctx
    /\ UNCHANGED <<models, global_last_error, global_print_errors, ub, thr, leaked>>

\* evaluate(ctx, tokens, ...): multi-step evaluation.  A failed rebuild keeps
\* no multi-step graph and reports GraphError in the Context's slot.
rwkv_eval_sequence(c, tokens, state_in, args_ok, graph_ok) ==
    /\ ub = "none"
    /\ c \in LiveCtx
    /\ LET w == models[ctx[c].model].weights
           n == Len(tokens)
       IN  IF ~args_ok \/ n = 0
           THEN /\ ctx' = [ctx EXCEPT ![c].last_error = @ \cup ArgError]
                /\ call' = Call("eval_sequence", c, NULL, ArgError, FALSE, n, "args")
           ELSE IF NeedsRebuild(c, n) /\ ~graph_ok
           THEN /\ ctx' = [ctx EXCEPT ![c].last_error = @ \cup GraphError,
                                      ![c].sequential_graph = FALSE,
                                      ![c].last_used_sequence_length = 0]
                /\ call' = Call("eval_sequence", c, NULL, GraphError, FALSE, n, "graph")
           ELSE /\ ctx' = [ctx EXCEPT ![c].sequential_graph = TRUE,
                                      ![c].last_used_sequence_length = n]
                /\ call' = [Call("eval_sequence", c, NULL, RWKV_ERROR_NONE, TRUE, n,
                                 IF NeedsRebuild(c, n) THEN "rebuilt" ELSE "reused") EXCEPT
                               !.out = SequenceChain(w, state_in, tokens)]
    /\ UNCHANGED <<models, global_last_error, global_print_errors, ub, thr, leaked>>

(* ------------------ clone and free, step by step ----------------------- *)
\* Caller threads.  Each is outside any call ("idle") or at a position inside
\* rwkv_clone_context or rwkv_free; c is the Context passed, clone the
\* Context being built, m the Model, tmp a value of the count held in a
\* register, last whether this call's decrement gave zero.
ThreadIds == {1, 2}
Idle == [pc |-> "idle", c |-> NULL, clone |-> NULL, m |-> NULL, n_threads |-> 0,
         tmp |-> 0, last |-> FALSE]

\* The count as a plain integer: its updates are a load and a separate store.
ReferenceCountPlainInt == FALSE

\* The declaration of rwkv_model::reference_count: its `++` and `--` are
\* atomic read-modify-write operations.
ReferenceCountAtomic == TRUE

\* Contexts a thread is inside a call on, as the handle passed or as the
\* clone being built.
Busy == {thr[t].c : t \in ThreadIds} \cup {thr[t].clone : t \in ThreadIds}

\* rwkv.cpp:72-75: the clone is allocated and bound to the source's Model.
CloneBegin(t, c, n_threads, ctx_ok) ==
    /\ ub = "none"
    /\ thr[t].pc = "idle"
    /\ c \in LiveCtx \ Busy
    /\ FreeCtxSlots # {}
    /\ models[ctx[c].model].reference_count < MaxRef
    /\ IF ~ctx_ok
       THEN /\ global_last_error' = global_last_error \cup RWKV_ERROR_CTX_ALLOC
            /\ UNCHANGED <<ctx, thr>>
       ELSE LET clone == Least(FreeCtxSlots)
            IN  /\ ctx' = [ctx EXCEPT ![clone] = [NewContext(FALSE) EXCEPT !.model = CloneModel(c)]]
                /\ thr' = [thr EXCEPT ![t] = [Idle EXCEPT !.pc = "clone_count", !.c = c,
                               !.clone = clone, !.m = CloneModel(c), !.n_threads = n_threads]]
                /\ UNCHANGED global_last_error
    /\ UNCHANGED <<models, global_print_errors, ub, call, leaked, sess>>

\* rwkv.cpp:76: clone->model->reference_count++.
CloneCount(t) ==
    /\ ub = "none"
    /\ thr[t].pc \in {"clone_count", "clone_store"}
    /\ LET m == thr[t].m
       IN  IF ReferenceCountAtomic
           THEN /\ models' = [models EXCEPT ![m].reference_count = CloneReferenceCount(@)]
                /\ thr' = [thr EXCEPT ![t].pc = "clone_build"]
           ELSE IF thr[t].pc = "clone_count"
           THEN /\ thr' = [thr EXCEPT ![t].pc = "clone_store",
                                      ![t].tmp = models[m].reference_count]
                /\ UNCHANGED models
           ELSE /\ models' = [models EXCEPT ![m].reference_count = CloneReferenceCount(thr[t].tmp)]
                /\ thr' = [thr EXCEPT ![t].pc = "clone_build"]
    /\ UNCHANGED <<ctx, global_last_error, global_print_errors, ub, call, leaked, sess>>

\* rwkv.cpp:78-86: the graph is built and the clone returned, or the build
\* fails and the unique_ptr deletes the clone.
CloneBuild(t, graph_ok) ==
    /\ ub = "none"
    /\ thr[t].pc = "clone_build"
    /\ LET built == rwkv_measure_and_build_serial_context(graph_ok)
           clone == thr[t].clone
       IN  IF ~built.ok
           THEN /\ global_last_error' = global_last_error \cup built.err
                /\ ctx' = [ctx EXCEPT ![clone] = NoCtx]
                /\ leaked' = [leaked EXCEPT ![thr[t].m] = @ + 1]
           ELSE /\ ctx' = [ctx EXCEPT ![clone] = [@ EXCEPT
                               !.n_threads = thr[t].n_threads,
                               !.serial_graph = built.ggml_ctx,
                               !.last_used_sequence_length = CloneLastUsedSequenceLength(thr[t].c),
                               !.print_errors = ClonePrintErrors(thr[t].c)]]
                /\ UNCHANGED <<global_last_error, leaked>>
    /\ thr' = [thr EXCEPT ![t] = Idle]
    /\ UNCHANGED <<models, global_print_errors, ub, call, sess>>

\* rwkv.cpp:137-141: rwkv_free is entered with a live Context.
FreeBegin(t, c) ==
    /\ ub = "none"
    /\ thr[t].pc = "idle"
    /\ c \in LiveCtx \ Busy
    /\ thr' = [thr EXCEPT ![t] = [Idle EXCEPT !.pc = "free_count", !.c = c, !.m = ctx[c].model]]
    /\ UNCHANGED <<ctx, models, global_last_error, global_print_errors, ub, call, leaked, sess>>

\* rwkv.cpp:142: --ctx->model->reference_count == 0.
FreeCount(t) ==
    /\ ub = "none"
    /\ thr[t].pc \in {"free_count", "free_store"}
    /\ LET m == thr[t].m
           old == IF ReferenceCountAtomic THEN models[m].reference_count ELSE thr[t].tmp
           rc == FreeReferenceCount(old)
       IN  IF ~ReferenceCountAtomic /\ thr[t].pc = "free_count"
           THEN /\ thr' = [thr EXCEPT ![t].pc = "free_store",
                                      ![t].tmp = models[m].reference_count]
                /\ UNCHANGED models
           ELSE /\ models' = [models EXCEPT ![m].reference_count = rc]
                /\ thr' = [thr EXCEPT ![t].pc = IF FreeTearsDown(rc) THEN "free_model"
                                                ELSE "free_rest",
                                      ![t].last = FreeTearsDown(rc)]
    /\ UNCHANGED <<ctx, global_last_error, global_print_errors, ub, call, leaked, sess>>

\* rwkv.cpp:143-145: the weight arena and the Model are released.  Releasing
\* a Model that is already released is undefined behaviour.
FreeModel(t) ==
    /\ ub = "none"
    /\ thr[t].pc = "free_model"
    /\ LET m == thr[t].m
       IN  IF models[m].alive
           THEN /\ models' = [models EXCEPT ![m] = NoModel]
                /\ leaked' = [leaked EXCEPT ![m] = 0]
                /\ UNCHANGED ub
           ELSE /\ ub' = "double_free"
                /\ UNCHANGED <<models, leaked>>
    /\ thr' = [thr EXCEPT ![t].pc = "free_rest"]
    /\ UNCHANGED <<ctx, global_last_error, global_print_errors, call, sess>>

\* rwkv.cpp:148-154: the graphs and the Context are released.
FreeRest(t) ==
    /\ ub = "none"
    /\ thr[t].pc = "free_rest"
    /\ ctx' = [ctx EXCEPT ![thr[t].c] = NoCtx]
    /\ thr' = [thr EXCEPT ![t] = Idle]
    /\ UNCHANGED <<models, global_last_error, global_print_errors, ub, call, leaked, sess>>

(* --------------------------- the specifications ------------------------- *)
\* What the caller keeps during an evaluation session: the tokens and the
\* initial state of the session, the Context it runs on, how far the
\* one-at-a-time run has come and the buffers it threads, the result of the
\* one multi-step call, an earlier evaluation kept for comparison (ref), the
\* latest evaluation (cur), which Context each Context was cloned from, the
\* lengths each Model reported right after init, and, per Context, the token
\* count of the multi-step call that last built a graph on it (built; 0 when
\* none did or the last build failed).
NoEval == [c |-> NULL, op |-> "none", tokens |-> <<>>, state |-> 0, out |-> <<0, 0>>]
NoSession == [tokens |-> <<>>, state |-> 0, c |-> NULL,
              pos |-> 0, serial |-> <<0, 0>>,
              done |-> FALSE, sequence |-> <<0, 0>>,
              ref |-> NoEval, cur |-> NoEval,
              parent |-> [c \in CtxIds |-> NULL],
              reported |-> [m \in ModelIds |-> <<0, 0>>],
              built |-> [c \in CtxIds |-> 0]]


\* The process before any call: an empty heap, both process-wide slots clear.
Init ==
    /\ ctx = [c \in CtxIds |-> NoCtx]
    /\ models = [m \in ModelIds |-> NoModel]
    /\ global_last_error = RWKV_ERROR_NONE
    /\ global_print_errors = TRUE
    /\ ub = "none"
    /\ call = Call("none", NULL, NULL, RWKV_ERROR_NONE, TRUE, 0, "none")
    /\ thr = [t \in ThreadIds |-> Idle]
    /\ leaked = [m \in ModelIds |-> 0]
    /\ sess = NoSession

\* Lifecycle: init, clone and free with every failure cause, and reads of
\* the error slots.
Next ==
    \/ \E f \in {BadFile, GoodFile}, a, b, g \in BOOLEAN :
          rwkv_init_from_file(f, 1, FALSE, a, b, g) /\ UNCHANGED sess
    \/ \E c \in CtxIds, a, g \in BOOLEAN :
          rwkv_clone_context(c, 1, a, g) /\ UNCHANGED sess
    \/ \E c \in CtxIds \cup {NULL} : rwkv_free(c) /\ UNCHANGED sess

Spec == Init /\ [][Next]_vars

\* No Model is on the heap: the caller loads one Model at a time.
NoModelLoaded == \A m \in ModelIds : ~models[m].alive

\* Slots: the error slots of the process and of the Contexts, with failing
\* clones and failing evaluations as the source of error codes.
NextSlots ==
    \/ rwkv_init_from_file(GoodFile, 1, FALSE, TRUE, TRUE, TRUE) /\ UNCHANGED sess
    \/ \E c \in CtxIds, a \in BOOLEAN :
          rwkv_clone_context(c, 1, a, TRUE) /\ UNCHANGED sess
    \/ \E c \in CtxIds \cup {NULL} : rwkv_free(c) /\ UNCHANGED sess
    \/ \E c \in CtxIds \cup {NULL} : rwkv_get_last_error(c) /\ UNCHANGED sess
    \/ \E c \in CtxIds, a \in BOOLEAN : rwkv_eval(c, 0, 0, a) /\ UNCHANGED sess

SpecSlots == Init /\ [][NextSlots]_vars

\* Flags: the print flags of the process and of the Contexts.
NextFlags ==
    \/ \E p \in BOOLEAN :
          rwkv_init_from_file(GoodFile, 1, p, TRUE, TRUE, TRUE) /\ UNCHANGED sess
    \/ \E c \in CtxIds : rwkv_clone_context(c, 1, TRUE, TRUE) /\ UNCHANGED sess
    \/ \E c \in CtxIds \cup {NULL} : rwkv_free(c) /\ UNCHANGED sess
    \/ \E c \in CtxIds \cup {NULL}, b \in BOOLEAN :
          rwkv_set_print_errors(c, b) /\ UNCHANGED sess
    \/ \E c \in CtxIds \cup {NULL} : rwkv_get_print_errors(c) /\ UNCHANGED sess

SpecFlags == Init /\ [][NextFlags]_vars

\* The caller notes the two lengths of a Model right after init.
InitAndReport(f) ==
    /\ rwkv_init_from_file(f, 1, FALSE, TRUE, TRUE, TRUE)
    /\ \E c \in CtxIds :
          /\ c = call'.ptr
          /\ sess' = [sess EXCEPT !.reported[ctx'[c].model] =
                          <<rwkv_get_state_len(c)', rwkv_get_logits_len(c)'>>]

\* Lengths: one Model at a time, loaded from a file with any header of the
\* bounded ranges, and the accessors.
ArchVersions == {4, 5, 6}
LenFiles ==
    {File(TRUE, v, e, l, a, h, 1) :
        v \in 1..MaxVocab, e \in 1..MaxEmbed, l \in 1..MaxLayer,
        a \in ArchVersions, h \in 0..MaxHead}

NextLen ==
    \/ \E f \in LenFiles : NoModelLoaded /\ InitAndReport(f)
    \/ \E c \in CtxIds : rwkv_clone_context(c, 1, TRUE, TRUE) /\ UNCHANGED sess
    \/ \E c \in CtxIds : rwkv_free(c) /\ UNCHANGED sess
    \/ \E c \in CtxIds, op \in {"get_n_vocab", "get_state_len", "get_logits_len"} :
          Accessor(op, c) /\ UNCHANGED sess
 
SpecLen == Init /\ [][NextLen]_vars

\* Lifetime: Models of two files, their Contexts cloned and freed, flags set
\* and error slots read, and the accessors.
NextLife ==
    \/ \E f \in {GoodFile, OtherFile} : InitAndReport(f)
    \/ \E c \in CtxIds : rwkv_clone_context(c, 1, TRUE, TRUE) /\ UNCHANGED sess
    \/ \E c \in CtxIds : rwkv_free(c) /\ UNCHANGED sess
    \/ \E c \in CtxIds : rwkv_get_last_error(c) /\ UNCHANGED sess
    \/ \E c \in CtxIds : rwkv_set_print_errors(c, TRUE) /\ UNCHANGED sess
    \/ \E c \in CtxIds, op \in {"get_state_len", "get_logits_len"} :
          Accessor(op, c) /\ UNCHANGED sess

SpecLife == Init /\ [][NextLife]_vars

\* Token sequences of a session: every sequence of 1 to MaxSeq tokens.
Tokens == {0, 1}
TokenSeqs == UNION {[1..k -> Tokens] : k \in 1..MaxSeq}

\* A session starts with the caller's tokens and initial state chosen.
InitSession(seqs, states) ==
    /\ ctx = [c \in CtxIds |-> NoCtx]
    /\ models = [m \in ModelIds |-> NoModel]
    /\ global_last_error = RWKV_ERROR_NONE
    /\ global_print_errors = TRUE
    /\ ub = "none"
    /\ call = Call("none", NULL, NULL, RWKV_ERROR_NONE, TRUE, 0, "none")
    /\ thr = [t \in ThreadIds |-> Idle]
    /\ leaked = [m \in ModelIds |-> 0]
    /\ \E tokens \in seqs, state \in states :
          sess = [NoSession EXCEPT !.tokens = tokens, !.state = state]

\* The next token of the session is evaluated by a single-step call on the
\* session's Context, from the state the previous call produced.
SerialStep(c) ==
    /\ sess.c \in {NULL, c}
    /\ sess.pos < Len(sess.tokens)
    /\ rwkv_eval(c, sess.tokens[sess.pos + 1],
                 IF sess.pos = 0 THEN sess.state ELSE sess.serial[1], TRUE)
    /\ sess' = [sess EXCEPT !.c = c, !.pos = @ + 1, !.serial = call'.out]

\* The session's tokens are evaluated by one multi-step call on the
\* session's Context, from the session's initial state.
SequenceCall(c, graph_ok) ==
    /\ sess.c \in {NULL, c}
    /\ ~sess.done
    /\ rwkv_eval_sequence(c, sess.tokens, sess.state, TRUE, graph_ok)
    /\ sess' = [sess EXCEPT !.c = c, !.done = call'.ok,
                            !.sequence = IF call'.ok THEN call'.out ELSE @]

\* Evaluation: one session on one Context, its tokens evaluated one at a
\* time and in one multi-step call, among other evaluations on the Context.
NextEval ==
    \/ \E f \in {GoodFile, OtherFile} :
          /\ NoModelLoaded
          /\ rwkv_init_from_file(f, 1, FALSE, TRUE, TRUE, TRUE)
          /\ UNCHANGED sess
    \/ \E c \in CtxIds : SerialStep(c)
    \/ \E c \in CtxIds, g \in BOOLEAN : SequenceCall(c, g)
    \/ \E c \in CtxIds, tokens \in {<<1>>, <<0, 1>>}, a \in BOOLEAN :
          rwkv_eval_sequence(c, tokens, 0, a, TRUE) /\ UNCHANGED sess

SpecEval == InitSession(TokenSeqs, {0, 1}) /\ [][NextEval]_vars

\* The Context a Context descends from by cloning.
RECURSIVE Root(_)
Root(c) == IF sess.parent[c] = NULL THEN c ELSE Root(sess.parent[c])

\* A clone call whose result the caller notes as a clone of c.
CloneAndNote(c, n_threads) ==
    /\ rwkv_clone_context(c, n_threads, TRUE, TRUE)
    /\ sess' = [sess EXCEPT !.parent[call'.ptr] = c]

\* The session's tokens are evaluated from the session's initial state on
\* Context c; the caller keeps the result, and either keeps the earlier
\* result it held for comparison or replaces it by the previous result.
EvalAndNote(c, keep) ==
    /\ rwkv_eval_sequence(c, sess.tokens, sess.state, TRUE, TRUE)
    /\ sess' = [sess EXCEPT
                  !.cur = [c |-> c, op |-> "eval_sequence", tokens |-> sess.tokens,
                           state |-> sess.state, out |-> call'.out],
                  !.ref = IF keep THEN @ ELSE sess.cur]

\* Clones: Contexts of at most two Models, created with one thread and cloned
\* with two, evaluate the session's tokens among other evaluations.
NextClone ==
    \/ \E f \in {GoodFile, OtherFile} :
          /\ Cardinality({m \in ModelIds : models[m].alive}) < 2
          /\ rwkv_init_from_file(f, 1, FALSE, TRUE, TRUE, TRUE)
          /\ UNCHANGED sess
    \/ \E c \in CtxIds : CloneAndNote(c, 2)
    \/ \E c \in CtxIds, keep \in BOOLEAN : EvalAndNote(c, keep)
    \/ \E c \in CtxIds : rwkv_eval_sequence(c, <<0, 1, 0, 1, 0>>, 0, TRUE, TRUE) /\ UNCHANGED sess

SpecClone == InitSession({<<1>>, <<1, 0>>}, {1}) /\ [][NextClone]_vars

\* Threads: Models are loaded by one call at a time; clone and free calls of
\* different threads, each on a Context no other thread is inside a call on,
\* interleave step by step.
NextThreads ==
    \/ /\ \A t \in ThreadIds : thr[t].pc = "idle"
       /\ NoModelLoaded
       /\ rwkv_init_from_file(GoodFile, 1, FALSE, TRUE, TRUE, TRUE)
       /\ UNCHANGED sess
    \/ \E t \in ThreadIds, c \in CtxIds, a \in BOOLEAN : CloneBegin(t, c, 1, a)
    \/ \E t \in ThreadIds : CloneCount(t)
    \/ \E t \in ThreadIds, g \in BOOLEAN : CloneBuild(t, g)
    \/ \E t \in ThreadIds, c \in CtxIds : FreeBegin(t, c)
    \/ \E t \in ThreadIds : FreeCount(t)
    \/ \E t \in ThreadIds : FreeModel(t)
    \/ \E t \in ThreadIds : FreeRest(t)

SpecThreads == Init /\ [][NextThreads]_vars

\* A free call after which the caller forgets what was built on the Context.
FreeAndNote(c) ==
    /\ rwkv_free(c)
    /\ sess' = IF c = NULL THEN sess ELSE [sess EXCEPT !.built[c] = 0]

\* A multi-step call on k tokens; the caller notes the token count when the
\* call built a graph, and that no graph is left when the build failed.
SequenceAndNote(c, k, graph_ok) ==
    /\ rwkv_eval_sequence(c, [i \in 1..k |-> 0], 0, TRUE, graph_ok)
    /\ sess' = [sess EXCEPT !.built[c] =
                    IF call'.cause = "rebuilt" THEN k
                    ELSE IF call'.cause = "graph" THEN 0 ELSE @]

\* Token counts of the multi-step calls made between clone and free calls.
GraphLens == 1..(MaxSeq - 1)

\* Graphs: the Contexts of one Model are cloned and freed between multi-step
\* calls of every length in GraphLens, whose graph builds may fail.
NextGraphs ==
    \/ /\ NoModelLoaded
       /\ rwkv_init_from_file(GoodFile, 1, FALSE, TRUE, TRUE, TRUE)
       /\ UNCHANGED sess
    \/ \E c \in CtxIds : rwkv_clone_context(c, 1, TRUE, TRUE) /\ UNCHANGED sess
    \/ \E c \in CtxIds \cup {NULL} : FreeAndNote(c)
    \/ \E c \in CtxIds, k \in GraphLens, g \in BOOLEAN : SequenceAndNote(c, k, g)

SpecGraphs == Init /\ [][NextGraphs]_vars

\* Clone frame: the Context a Model was loaded for runs on one thread; its
\* print flag is set, its error slot filled by failing evaluations and its
\* multi-step graph built, and it and its clones are cloned with two threads.
NextFrame ==
    \/ /\ NoModelLoaded
       /\ rwkv_init_from_file(GoodFile, 1, FALSE, TRUE, TRUE, TRUE)
       /\ UNCHANGED sess
    \/ \E c \in CtxIds, a \in BOOLEAN :
          rwkv_clone_context(c, 2, a, TRUE) /\ UNCHANGED sess
    \/ \E c \in CtxIds : rwkv_free(c) /\ UNCHANGED sess
    \/ \E c \in CtxIds \cup {NULL} :
          /\ c # NULL => ctx[c].n_threads = 1
          /\ rwkv_set_print_errors(c, c # NULL)
          /\ UNCHANGED sess
    \/ \E c \in CtxIds, a \in BOOLEAN :
          /\ ctx[c].n_threads = 1
          /\ rwkv_eval_sequence(c, <<0>>, 0, a, TRUE)
          /\ UNCHANGED sess

SpecFrame == Init /\ [][NextFrame]_vars

\* Compatibility: one Model at a time, loaded from a file with any header of
\* the bounded ranges, and the length accessors of both generations.
NextCompat ==
    \/ \E f \in LenFiles :
          /\ NoModelLoaded
          /\ rwkv_init_from_file(f, 1, FALSE, TRUE, TRUE, TRUE)
          /\ UNCHANGED sess
    \/ \E c \in CtxIds : rwkv_free(c) /\ UNCHANGED sess
    \/ \E c \in CtxIds, op \in {"get_state_len", "get_logits_len"} :
          Accessor(op, c) /\ UNCHANGED sess
    \/ \E c \in CtxIds,
          op \in {"get_state_buffer_element_count", "get_logits_buffer_element_count"} :
          CompatAccessor(op, c) /\ UNCHANGED sess

SpecCompat == Init /\ [][NextCompat]_vars

(* ------------------------------- claims --------------------------------- *)
\* Every allocation that is live: Context objects, Model objects, weight
\* arenas and the arenas of the two graphs of each Context.
Heap ==
    {<<"context", c>> : c \in LiveCtx}
        \cup {<<"model", m>> : m \in {x \in ModelIds : models[x].alive}}
        \cup {<<"weights", m>> : m \in {x \in ModelIds : models[x].ggml_ctx}}
        \cup {<<"serial_graph", c>> : c \in {x \in CtxIds : ctx[x].serial_graph}}
        \cup {<<"sequential_graph", c>> : c \in {x \in CtxIds : ctx[x].sequential_graph}}

\* The Model object or its weight arena is released by the step.
TornDown(m) ==
    \/ models[m].alive /\ ~models'[m].alive
    \/ models[m].ggml_ctx /\ ~models'[m].ggml_ctx

\* Every live Context refers to a Model whose object and weight arena are live.
LiveContextsHaveModel ==
    \A c \in LiveCtx : models[ctx[c].model].alive /\ models[ctx[c].model].ggml_ctx

\* C1: over any sequence of init, clone and free calls a Model is never torn
\* down while a live Context still refers to it: a step that tears a Model
\* down is a free of a Context referring to it, no other live Context refers
\* to it, and after every step each live Context's Model is intact.
C1_TeardownOnlyByLastFree ==
    [][/\ \A m \in ModelIds : TornDown(m) =>
              /\ call'.op = "free" /\ call'.c \in LiveCtx /\ ctx[call'.c].model = m
              /\ \A c \in LiveCtx : ctx[c].model = m => c = call'.c
       /\ LiveContextsHaveModel']_vars

\* C1 witness: a free has torn a Model down while Contexts of another Model
\* stay live.
C1_Witness ==
    /\ call.op = "free" /\ call.cause = "teardown"
    /\ LiveCtx # {}

\* C2: an init that fails returns a null handle and leaves live nothing that
\* was allocated during the call.
C2_FailedInitReleasesAll ==
    [][(call'.op = "init" /\ call'.cause # "none" /\ ub' = "none")
          => (call'.ptr = NULL /\ Heap' = Heap)]_vars

\* C4: every failing init or clone, whatever the cause, returns null and
\* leaves a code other than NONE in an error slot.
C4_FailureSetsErrorCode ==
    (call.op \in {"init", "clone"} /\ call.cause # "none")
        => /\ ub = "none"
           /\ call.ptr = NULL
           /\ \/ global_last_error # RWKV_ERROR_NONE
              \/ call.c # NULL /\ ctx[call.c].last_error # RWKV_ERROR_NONE

\* The Contexts whose reference to Model m is counted: those that are live
\* and refer to m, but for a clone whose increment is still to come and a
\* Context whose free has already decremented.
Counted(m) ==
    {c \in LiveCtx :
        /\ ctx[c].model = m
        /\ \A t \in ThreadIds :
              /\ ~(thr[t].clone = c /\ thr[t].pc \in {"clone_count", "clone_store"})
              /\ ~(thr[t].c = c /\ thr[t].pc \in {"free_model", "free_rest"})}

SelectedErrorSlot(c) == IF c # NULL THEN ctx[c].last_error ELSE global_last_error

\* C5: get_last_error returns the value held by the selected slot (the
\* Context's when a Context is given, the process-wide one otherwise) and
\* resets that slot to NONE, so an immediately repeated call on the same
\* target returns NONE; the slot not selected and every other Context are
\* left unchanged.
C5_GetLastErrorReadsAndClears ==
    [][call'.op = "get_last_error" =>
          /\ call'.err = SelectedErrorSlot(call'.c)
          /\ IF call'.c # NULL
             THEN ctx'[call'.c].last_error = RWKV_ERROR_NONE
             ELSE global_last_error' = RWKV_ERROR_NONE
          /\ call'.c # NULL => global_last_error' = global_last_error
          /\ \A d \in CtxIds \ {call'.c} : ctx'[d] = ctx[d]
          /\ (call.op = "get_last_error" /\ call.c = call'.c)
                => call'.err = RWKV_ERROR_NONE]_vars

\* C5 witness: a Context's slot held a code, was read and cleared, and the
\* process-wide slot still holds its own code.
C5_Witness ==
    /\ call.op = "get_last_error" /\ call.c # NULL
    /\ call.err = ArgError
    /\ ctx[call.c].last_error = RWKV_ERROR_NONE
    /\ global_last_error = RWKV_ERROR_CTX_ALLOC

\* C8: set_print_errors followed by get_print_errors on the same target
\* returns the value set; setting the flag on a Context changes that
\* Context's flag only (not the process-wide flag, not another Context's),
\* and setting it with no Context changes the process-wide flag only.
C8_PrintErrorsFrame ==
    [][/\ call'.op = "set_print_errors" =>
              IF call'.c # NULL
              THEN /\ ctx'[call'.c] = [ctx[call'.c] EXCEPT !.print_errors = call'.ok]
                   /\ \A d \in CtxIds \ {call'.c} : ctx'[d] = ctx[d]
                   /\ global_print_errors' = global_print_errors
              ELSE /\ global_print_errors' = call'.ok
                   /\ ctx' = ctx
       /\ (call'.op = "get_print_errors" /\ call.op = "set_print_errors"
             /\ call.c = call'.c) => call'.ok = call.ok]_vars

\* C8 witness: a flag was set on a Context to a value that differs from the
\* process-wide flag and from the flag of a live Context sharing its Model.
C8_Witness ==
    /\ call.op = "set_print_errors" /\ call.c # NULL
    /\ ctx[call.c].print_errors = call.ok
    /\ global_print_errors # call.ok
    /\ \E d \in LiveCtx \ {call.c} :
          ctx[d].model = ctx[call.c].model /\ ctx[d].print_errors # call.ok

\* C6: get_state_len returns embedding_width*(2+head_width)*layer_count when
\* the architecture major version is at least 5 and
\* embedding_width*5*layer_count otherwise, whatever the other fields of the
\* Model and of the Context are.
C6_StateLenFormula ==
    call.op = "get_state_len" =>
        LET model == models[ctx[call.c].model]
        IN  call.num = IF model.arch_version_major >= 5
                       THEN model.n_embed * (2 + model.head_size) * model.n_layer
                       ELSE model.n_embed * 5 * model.n_layer

\* C6 witness: the length of a version-5 Model with head width 2, embedding
\* width 3 and 2 layers was asked for and is 24.
C6_Witness ==
    /\ call.op = "get_state_len" /\ call.num = 24
    /\ LET model == models[ctx[call.c].model]
       IN  /\ model.arch_version_major = 5 /\ model.head_size = 2
           /\ model.n_embed = 3 /\ model.n_layer = 2 /\ model.n_vocab = 2

\* C7: for the lifetime of a Model every live Context sharing it reports the
\* state length and the logits length that were reported right after init,
\* and the logits length equals the vocabulary size.
C7_LengthsNeverChange ==
    \A c \in LiveCtx :
        /\ <<rwkv_get_state_len(c), rwkv_get_logits_len(c)>> = sess.reported[ctx[c].model]
        /\ rwkv_get_logits_len(c) = rwkv_get_n_vocab(c)
        /\ (call.op = "get_logits_len" /\ call.c = c) => call.num = rwkv_get_n_vocab(c)

\* C7 witness: a clone outlives the Context its Model was loaded for, after
\* calls that changed a print flag, and a length is read through it.
C7_Witness ==
    /\ call.op = "get_logits_len" /\ call.num = 1
    /\ call.c # 1 /\ ~ctx[1].alive
    /\ ctx[call.c].print_errors
    /\ \E d \in LiveCtx \ {call.c} : ctx[d].model # ctx[call.c].model

\* The live Contexts that refer to Model m.
Referencing(m) == {c \in LiveCtx : ctx[c].model = m}

\* C11: in every state reached by init, clone and free calls, failing ones
\* included, the reference count of a Model on the heap is the number of live
\* Contexts referring to it, and no Model is on the heap with no live Context
\* referring to it.
C11_CountEqualsLiveContexts ==
    \A m \in ModelIds : models[m].alive =>
        /\ models[m].reference_count = Cardinality(Referencing(m))
        /\ Referencing(m) # {}

\* The graph arenas Context c owns: the single-step graph's and, once a
\* multi-step graph is built, the multi-step graph's.
OwnedGraphs(c) ==
    (IF ctx[c].serial_graph THEN {<<"serial_graph", c>>} ELSE {})
        \cup (IF ctx[c].sequential_graph THEN {<<"sequential_graph", c>>} ELSE {})

\* The graph arenas among the arenas a call released.
FreedGraphs(freed) == SelectSeq(freed, LAMBDA a : a[1] # "weights")

\* C12: free of a live Context releases exactly the graph arenas the Context
\* owns, each once: the single-step arena always, the multi-step arena if and
\* only if one was built (last-built length > 0); no other Context is touched;
\* free of a null handle releases nothing and changes nothing.
C12_FreeReleasesOwnedGraphs ==
    [][call'.op = "free" =>
          IF call'.c = NULL
          THEN /\ call'.freed = <<>>
               /\ UNCHANGED <<ctx, models, global_last_error, global_print_errors>>
          ELSE LET graphs == FreedGraphs(call'.freed)
               IN  /\ {graphs[i] : i \in 1..Len(graphs)} = OwnedGraphs(call'.c)
                   /\ Len(graphs) = Cardinality(OwnedGraphs(call'.c))
                   /\ <<"serial_graph", call'.c>> \in OwnedGraphs(call'.c)
                   /\ (<<"sequential_graph", call'.c>> \in OwnedGraphs(call'.c))
                         <=> ctx[call'.c].last_used_sequence_length > 0
                   /\ ~ctx'[call'.c].alive
                   /\ \A d \in CtxIds \ {call'.c} : ctx'[d] = ctx[d]]_vars

\* C12 witness: a Context without a multi-step graph was freed, only its
\* single-step arena was released, and a live Context of the same Model
\* keeps its multi-step graph.
C12_Witness ==
    /\ call.op = "free" /\ call.c # NULL
    /\ call.freed = << <<"serial_graph", call.c>> >>
    /\ \E d \in LiveCtx : ctx[d].sequential_graph /\ ctx[d].last_used_sequence_length = 2

C14_CloneFrame ==
    [][(call'.op = "clone" /\ call'.ok) =>
          /\ call'.ptr \in CtxIds \ LiveCtx
          /\ \A d \in CtxIds \ {call'.ptr} : ctx'[d] = ctx[d]
          /\ models' = [models EXCEPT ![ctx[call'.c].model].reference_count = @ + 1]
          /\ UNCHANGED <<global_last_error, global_print_errors>>
          /\ ctx'[call'.ptr].alive
          /\ ctx'[call'.ptr].model = ctx[call'.c].model
          /\ ctx'[call'.ptr].n_threads = call'.num
          /\ ctx'[call'.ptr].print_errors = ctx[call'.c].print_errors
          /\ ctx'[call'.ptr].serial_graph
          /\ ~ctx'[call'.ptr].sequential_graph
          /\ ctx'[call'.ptr].last_used_sequence_length = 0]_vars

\* C14 witness: a Context holding a multi-step graph and an error code, with
\* a print flag that differs from the process-wide one, was cloned with
\* another thread count.
C14_Witness ==
    /\ call.op = "clone" /\ call.ok
    /\ ctx[call.c].sequential_graph /\ ctx[call.c].last_used_sequence_length = 1
    /\ ctx[call.c].last_error = ArgError
    /\ ctx[call.c].print_errors # global_print_errors
    /\ ctx[call.ptr].n_threads = 2 /\ ctx[call.c].n_threads = 1
    /\ ctx[call.ptr].print_errors = ctx[call.c].print_errors
    /\ ctx[call.ptr].last_error = RWKV_ERROR_NONE

\* C15 as stated: the compatibility accessors return, for every Model, the
\* number get_state_len and get_logits_len return, also when the state
\* length does not fit the 32-bit return type.
C15_CompatAccessorsAgree ==
    /\ call.op = "get_state_buffer_element_count" => call.num = rwkv_get_state_len(call.c)
    /\ call.op = "get_logits_buffer_element_count" => call.num = rwkv_get_logits_len(call.c)

\* C15: rwkv_get_state_buffer_element_count returns get_state_len reduced
\* modulo 2^32, hence the same number exactly when the state length fits in
\* 32 bits; rwkv_get_logits_buffer_element_count always returns the number
\* get_logits_len returns, the vocabulary size being a 32-bit header field.
C15_CompatAccessorsTruncate ==
    /\ call.op = "get_state_buffer_element_count" =>
          /\ call.num = rwkv_get_state_len(call.c) % Uint32Mod
          /\ (call.num = rwkv_get_state_len(call.c)) <=> (rwkv_get_state_len(call.c) < Uint32Mod)
    /\ call.op = "get_logits_buffer_element_count" =>
          call.num = rwkv_get_logits_len(call.c)

\* C15 witness: the state length of a Model does not fit the return type and
\* the compatibility accessor returned its low bits.
C15_Witness ==
    /\ call.op = "get_state_buffer_element_count"
    /\ rwkv_get_state_len(call.c) = Uint32Mod + 2
    /\ call.num = 2

====
